---- MODULE Spec2Model ----
(***************************************************************************)
(* Model of src/main.py: the Reddit -> LLM -> e-mail newsletter pipeline.  *)
(*                                                                         *)
(*   EnhancedRedditScraper   get_top_daily_posts, get_post_comments,       *)
(*                           collect_daily_content                         *)
(*   NewsletterGenerator     _check_deepseek_availability,                 *)
(*                           generate_newsletter                           *)
(*   save_content_to_json, send_email, main                                *)
(*                                                                         *)
(* Every external call (HTTP request, LLM completion, SMTP command, read   *)
(* of the environment) is one step whose outcome is chosen from the        *)
(* outcomes that call can have: a value, or a raised exception.            *)
(*                                                                         *)
(* Three specifications share the actions:                                 *)
(*   SpecCollect  one call of collect_daily_content                        *)
(*   SpecSend     one call of send_email                                   *)
(*   Spec         one run of main                                          *)
(***************************************************************************)
EXTENDS Integers, Sequences, FiniteSets, TLC

VARIABLES
    pc,                 \* position of the (single) thread of control
    comments_per_post,  \* collect_daily_content: parameter
    posts,              \* collect_daily_content: result of get_top_daily_posts
    idx,                \* collect_daily_content: position of the for loop over posts
    response,           \* get_post_comments: the last HTTP response received
    collected_content,  \* collect_daily_content: list being built
    content,            \* the dict returned by collect_daily_content
    sleeps,             \* number of time.sleep(1) calls made
    listing_status,     \* get_top_daily_posts: response.status_code seen (0: none)
    snapshot,           \* save_content_to_json: what happened to the file
    backup_api_key,     \* NewsletterGenerator.backup_api_key
    primary_client,     \* NewsletterGenerator.primary_client is set
    prompt,             \* generate_newsletter: the prompt built (<<>>: none yet)
    calls,              \* log of the LLM API calls made, in order
    newsletter,         \* text returned by generate_newsletter / given to send_email
    genOutcome,         \* how generate_newsletter ended: returned, or the exception raised
    email_to_list,      \* send_email: list of recipients
    sendIdx,            \* send_email: position of the for loop over email_to_list
    successful_sends,   \* send_email: counter
    session,            \* state of the SMTP connection of this call
    smtp,               \* log of the SMTP commands issued, in order
    sendResult,         \* value returned by send_email
    smtp_config,        \* send_email: what the configuration read gave
    outbox,             \* the messages the server accepted: recipient and text
    mainResult          \* how main ended

vars == <<pc, comments_per_post, posts, idx, response, collected_content, content,
          sleeps, snapshot, backup_api_key, primary_client, prompt, calls,
          newsletter, genOutcome, email_to_list, sendIdx, successful_sends, session,
          smtp, sendResult, mainResult, listing_status, smtp_config, outbox>>

collectVars == <<comments_per_post, posts, idx, response, collected_content,
                 content, sleeps, listing_status>>
genVars     == <<backup_api_key, primary_client, prompt, calls, newsletter, genOutcome>>
sendVars    == <<email_to_list, sendIdx, successful_sends, session, smtp, sendResult,
                 smtp_config, outbox>>

(***************************************************************************)
(* Bounds of the model.                                                    *)
(***************************************************************************)
MaxPosts        == 2   \* SpecCollect: threads in one listing
MaxComments     == 2   \* SpecCollect: reply nodes in one comments response
MaxCap          == 1   \* SpecCollect: largest comments_per_post tried
MainMaxPosts    == 1   \* Spec: threads in one listing
MainMaxComments == 1   \* Spec: reply nodes in one comments response
MaxEmailLen     == 5   \* SpecSend: characters in EMAIL_TO
MainMaxEmailLen == 2   \* Spec: characters in EMAIL_TO
MaxUrlPosts       == 2 \* SpecPosts: posts of a listing, with every kind of URL
MaxPromptPosts    == 1 \* SpecPrompt: posts of a content given to _prepare_prompt
MaxPromptComments == 1 \* SpecPrompt: comments of such a post

Scores     == {-1, 1}          \* popularity scores the feed may report
MainScores == {1}

(***************************************************************************)
(* Generic helpers.                                                        *)
(***************************************************************************)
Min(a, b) == IF a <= b THEN a ELSE b

SeqsUpTo(S, n) == UNION {[1..k -> S] : k \in 0..n}

\* str.startswith
StartsWith(s, p) == Len(s) >= Len(p) /\ SubSeq(s, 1, Len(p)) = p

\* s[:n] for n >= 0
Take(s, n) == SubSeq(s, 1, Min(n, Len(s)))

\* position where x goes in s, s sorted by score descending: after every
\* element whose score is >= x.score (keeps equal keys in arrival order)
InsertByScoreDesc(s, x) ==
    LET k == Cardinality({j \in 1..Len(s) : s[j].score >= x.score})
    IN  SubSeq(s, 1, k) \o <<x>> \o SubSeq(s, k + 1, Len(s))

RECURSIVE SortedByScoreDesc(_)
\* sorted(s, key=lambda x: x['score'], reverse=True)
SortedByScoreDesc(s) ==
    IF s = <<>> THEN <<>>
    ELSE InsertByScoreDesc(SortedByScoreDesc(SubSeq(s, 1, Len(s) - 1)), s[Len(s)])

(***************************************************************************)
(* EnhancedRedditScraper.                                                  *)
(*                                                                         *)
(* A URL is a sequence of tokens; a prefix of the string is a prefix of    *)
(* the sequence.                                                           *)
(***************************************************************************)
AbsentUrl    == <<"<no url key>">>
NoneUrl      == <<"None">>
RedditPrefix == <<"https://", "reddit.com">>
BaseUrl == <<"https://", "www.", "reddit.com", "/r/x">>
Urls == { AbsentUrl,
          <<"https://", "reddit.com", "/r/x/comments/1">>,
          <<"https://", "www.", "reddit.com", "/r/x/comments/1">>,
          <<"https://", "example.com", "/paper">> }
PlainUrls == { <<"https://", "example.com", "/paper">> }

NoResponse == [net |-> "none", status |-> 0, json |-> "none", children |-> <<>>]

\* What requests.get(...) can give: an exception, a non-200 status, a body
\* that is not JSON, JSON of another shape, or 200 with `children`.
Responses(childSeqs) ==
    { [net |-> "error", status |-> 0,   json |-> "none", children |-> <<>>],
      [net |-> "ok",    status |-> 500, json |-> "none", children |-> <<>>],
      [net |-> "ok",    status |-> 200, json |-> "not_json",    children |-> <<>>],
      [net |-> "ok",    status |-> 200, json |-> "missing_key", children |-> <<>>],
      [net |-> "ok",    status |-> 200, json |-> "index_error", children |-> <<>>] }
    \cup { [net |-> "ok", status |-> 200, json |-> "ok", children |-> c] : c \in childSeqs }

ListingResponses(maxPosts, scores, urls) ==
    Responses(SeqsUpTo([score : scores, url : urls], maxPosts))

\* a reply node; the "more" nodes of a comment tree have no body
CommentNodes(scores) ==
    {[body |-> TRUE, score |-> s] : s \in scores} \cup {[body |-> FALSE, score |-> 0]}

CommentResponses(maxComments, scores) ==
    Responses(SeqsUpTo(CommentNodes(scores), maxComments))

\* lines 51-59: one post of the listing, as processed
ProcessPost(child, n) ==
    [ id           |-> n,
      score        |-> child.score,
      external_url |-> IF child.url # AbsentUrl /\ ~StartsWith(child.url, RedditPrefix)
                       THEN child.url ELSE NoneUrl ]

TopDailyPosts_Unsorted(children) ==
    [n \in 1..Len(children) |-> ProcessPost(children[n], n)]

\* lines 48-61, for a 200 response of the right shape
TopDailyPosts(children) ==
    SortedByScoreDesc([n \in 1..Len(children) |-> ProcessPost(children[n], n)])

\* get_top_daily_posts raises: requests.get raised, or line 48 met a body
\* that is not the expected JSON (nothing catches it)
TopDailyPostsRaises(resp) ==
    \/ resp.net = "error"
    \/ resp.status = 200 /\ resp.json # "ok"

\* lines 85-95: the nodes with a body, as processed
ProcessedComments(children) ==
    SelectSeq([n \in 1..Len(children) |->
                  [author |-> n, body |-> children[n].body, score |-> children[n].score]],
              LAMBDA c : c.body)

PostComments_TruncateFirst(resp, limit) ==
    IF resp.status # 200 THEN <<>>
    ELSE IF resp.json \in {"index_error", "missing_key"} THEN <<>>
    ELSE SortedByScoreDesc(Take(ProcessedComments(resp.children), limit))

\* lines 77-101: the value get_post_comments returns for a response
PostComments(resp, limit) ==
    IF resp.status # 200 THEN <<>>
    ELSE IF resp.json \in {"index_error", "missing_key"} THEN <<>>
    ELSE Take(SortedByScoreDesc(ProcessedComments(resp.children)), limit)

\* get_post_comments raises: only IndexError and KeyError are caught
PostCommentsRaises(resp) == resp.status = 200 /\ resp.json = "not_json"

\* lines 133-144
CommentData(c) == [author |-> c.author, score |-> c.score]

\* lines 118-130, 133-144
PostContent(post, comments) ==
    [ reddit_url   |-> post.id,
      score        |-> post.score,
      external_url |-> post.external_url,
      comments     |-> [k \in 1..Len(comments) |-> CommentData(comments[k])] ]

NoContent == [posts |-> <<>>, built |-> FALSE]

GetTopDailyPosts_RaisesOnBadStatus(listings) ==
    /\ pc = "collect"
    /\ \E resp \in listings :
          /\ response' = resp
          /\ listing_status' = resp.status
          /\ IF TopDailyPostsRaises(resp) \/ resp.status # 200
             THEN /\ pc' = "collect_raised"
                  /\ UNCHANGED <<posts, idx>>
             ELSE /\ posts' = TopDailyPosts(resp.children)
                  /\ idx' = 1
                  /\ pc' = "collect_loop"
    /\ collected_content' = <<>>
    /\ UNCHANGED <<comments_per_post, content, sleeps>>
    /\ UNCHANGED <<snapshot, mainResult>>
    /\ UNCHANGED genVars
    /\ UNCHANGED sendVars

\* line 114: posts = self.get_top_daily_posts(post_limit)
GetTopDailyPosts(listings) ==
    /\ pc = "collect"
    /\ \E resp \in listings :
          /\ response' = resp
          /\ listing_status' = resp.status
          /\ IF TopDailyPostsRaises(resp)
             THEN /\ pc' = "collect_raised"
                  /\ UNCHANGED <<posts, idx>>
             ELSE /\ posts' = IF resp.status # 200 THEN <<>>
                                                  ELSE TopDailyPosts(resp.children)
                  /\ idx' = 1
                  /\ pc' = "collect_loop"
    /\ collected_content' = <<>>
    /\ UNCHANGED <<comments_per_post, content, sleeps>>
    /\ UNCHANGED <<snapshot, mainResult>>
    /\ UNCHANGED genVars
    /\ UNCHANGED sendVars

\* lines 117-132, 74-75: next post of the loop, the request for its comments
RequestComments(commentResponses) ==
    /\ pc = "collect_loop"
    /\ idx <= Len(posts)
    /\ \E resp \in commentResponses :
          /\ response' = resp
          /\ pc' = IF resp.net = "error" THEN "collect_raised" ELSE "comments_response"
    /\ UNCHANGED <<comments_per_post, posts, idx, collected_content, content, sleeps,
                   listing_status>>
    /\ UNCHANGED <<snapshot, mainResult>>
    /\ UNCHANGED genVars
    /\ UNCHANGED sendVars

\* lines 77-101, 133-147: the comments of the post, the post appended, the pause
AppendPostContent ==
    /\ pc = "comments_response"
    /\ IF PostCommentsRaises(response)
       THEN /\ pc' = "collect_raised"
            /\ UNCHANGED <<idx, collected_content, sleeps>>
       ELSE /\ collected_content' =
                  Append(collected_content,
                         PostContent(posts[idx], PostComments(response, comments_per_post)))
            /\ sleeps' = sleeps + 1
            /\ idx' = idx + 1
            /\ pc' = "collect_loop"
    /\ UNCHANGED <<comments_per_post, posts, response, content, listing_status>>
    /\ UNCHANGED <<snapshot, mainResult>>
    /\ UNCHANGED genVars
    /\ UNCHANGED sendVars

\* lines 149-153: the dict returned; the locals of the calls are gone
CollectReturn ==
    /\ pc = "collect_loop"
    /\ idx > Len(posts)
    /\ content' = [posts |-> collected_content, built |-> TRUE]
    /\ posts' = <<>>
    /\ idx' = 0
    /\ response' = NoResponse
    /\ pc' = "collect_done"
    /\ UNCHANGED <<comments_per_post, collected_content, sleeps, listing_status>>
    /\ UNCHANGED <<snapshot, mainResult>>
    /\ UNCHANGED genVars
    /\ UNCHANGED sendVars

InitRest ==
    /\ posts = <<>>
    /\ idx = 0
    /\ response = NoResponse
    /\ collected_content = <<>>
    /\ content = NoContent
    /\ sleeps = 0
    /\ snapshot = "none"
    /\ backup_api_key = "None"
    /\ primary_client = FALSE
    /\ prompt = <<>>
    /\ calls = <<>>
    /\ email_to_list = <<>>
    /\ sendIdx = 0
    /\ successful_sends = 0
    /\ session = "none"
    /\ smtp = <<>>
    /\ sendResult = FALSE
    /\ mainResult = "running"
    /\ listing_status = 0
    /\ smtp_config = "unread"
    /\ outbox = <<>>

\* a call collect_daily_content(comments_per_post = n)
InitCollect ==
    /\ pc = "collect"
    /\ comments_per_post \in 0..MaxCap
    /\ newsletter = <<>>
    /\ genOutcome = "none"
    /\ InitRest

NextCollect ==
    \/ GetTopDailyPosts(ListingResponses(MaxPosts, Scores, PlainUrls))
    \/ RequestComments(CommentResponses(MaxComments, Scores))
    \/ AppendPostContent
    \/ CollectReturn

SpecCollect == InitCollect /\ [][NextCollect]_vars

\* get_top_daily_posts alone, on listings whose posts carry any kind of URL
NextPosts == GetTopDailyPosts(ListingResponses(MaxUrlPosts, Scores, Urls))

SpecPosts == InitCollect /\ [][NextPosts]_vars

(***************************************************************************)
(* Text.  A string is a sequence of characters.                            *)
(***************************************************************************)
RECURSIVE LStrip(_)
LStrip(s) == IF s # <<>> /\ Head(s) = " " THEN LStrip(Tail(s)) ELSE s

RECURSIVE RStrip(_)
RStrip(s) ==
    IF s # <<>> /\ s[Len(s)] = " " THEN RStrip(SubSeq(s, 1, Len(s) - 1)) ELSE s

\* str.strip()
Strip(s) == RStrip(LStrip(s))

RECURSIVE Split(_, _)
\* str.split(c): the pieces between the occurrences of c, always at least one
Split(s, c) ==
    IF s = <<>> THEN << <<>> >>
    ELSE LET rest == Split(Tail(s), c)
         IN  IF Head(s) = c THEN << <<>> >> \o rest
             ELSE << <<Head(s)>> \o rest[1] >> \o Tail(rest)

EmailChars == {"a", "b", ",", " "}

\* the texts a completion may return: empty, blank, and with something in it
Texts == { <<>>, <<" ">>, <<"T">>, <<" ", "T">> }

(***************************************************************************)
(* NewsletterGenerator.                                                    *)
(***************************************************************************)
BackupKeys == {"None", "", "sk-backup"}     \* os.getenv("OPENAI_BACKUP_API_KEY")

\* truth value of a string or None
Truthy(k) == k \notin {"None", ""}

NoText == <<>>

Call(fn, out, text) == [fn |-> fn, out |-> out, text |-> text]

(***************************************************************************)
(* _prepare_prompt.  A dict is a record; the dicts collect_daily_content   *)
(* builds carry every key, a dict given from elsewhere may lack one key,   *)
(* named by its field `missing`.  The prompt is a sequence of lines.       *)
(***************************************************************************)
ContentKeys == {"subreddit", "date", "posts"}
PostKeys    == {"title", "author", "score", "reddit_url", "external_url", "text",
                "comments"}
CommentKeys == {"author", "text", "score", "mentioned_urls"}

\* the key the dict lacks, "none" when it has them all
Missing(d) == IF "missing" \in DOMAIN d THEN d.missing ELSE "none"

\* values the model of the collection does not carry: '' and []
TextOf(post)         == IF "text" \in DOMAIN post THEN post.text ELSE ""
MentionedUrls(c)     == IF "mentioned_urls" \in DOMAIN c THEN c.mentioned_urls ELSE <<>>

\* the contents _prepare_prompt may be given
PromptComments == [missing : CommentKeys \cup {"none"}]
PromptPosts(maxComments) ==
    [ missing      : PostKeys \cup {"none"},
      external_url : {NoneUrl} \cup PlainUrls,
      comments     : SeqsUpTo(PromptComments, maxComments) ]
PromptContents(maxPosts, maxComments) ==
    [ missing : ContentKeys \cup {"none"},
      posts   : SeqsUpTo(PromptPosts(maxComments), maxPosts),
      built   : {TRUE} ]

\* lines 339-344: the lines of one comment
CommentLines(c) ==
    <<"- author: text", "  Score">>
    \o (IF MentionedUrls(c) # <<>> THEN <<"  Links mencionados">> ELSE <<>>)

RECURSIVE CommentsLines(_)
CommentsLines(cs) ==
    IF cs = <<>> THEN <<>> ELSE CommentLines(Head(cs)) \o CommentsLines(Tail(cs))

\* lines 329-344: the lines of one post
PostLines(post) ==
    <<"Post", "Autor", "Score", "Link do Reddit">>
    \o (IF post.external_url # NoneUrl THEN <<"Link externo">> ELSE <<>>)
    \o (IF TextOf(post) # "" THEN <<"Conteudo">> ELSE <<>>)
    \o <<"Comentarios principais">>
    \o CommentsLines(post.comments)

RECURSIVE PostsLines(_)
PostsLines(ps) ==
    IF ps = <<>> THEN <<>> ELSE PostLines(Head(ps)) \o PostsLines(Tail(ps))

\* lines 323-365, when no key is missing
PromptOf(c) ==
    <<"Crie uma newsletter profissional", "Conteudo para analise">>
    \o PostsLines(c.posts)
    \o <<"Diretrizes para a newsletter">>

PromptRaises_Never(c) == FALSE

\* the subscripts content['...'], post['...'], comment['...'] raise KeyError
\* on a missing key
PromptRaises(c) ==
    \/ Missing(c) # "none"
    \/ \E i \in 1..Len(c.posts) :
          \/ Missing(c.posts[i]) # "none"
          \/ \E k \in 1..Len(c.posts[i].comments) :
                Missing(c.posts[i].comments[k]) # "none"

\* line 223: prompt = self._prepare_prompt(content)
PreparePrompt ==
    /\ pc = "generate"
    /\ IF PromptRaises(content)
       THEN /\ genOutcome' = "KeyError"
            /\ pc' = "gen_raised"
            /\ UNCHANGED prompt
       ELSE /\ prompt' = PromptOf(content)
            /\ pc' = "probe"
            /\ UNCHANGED genOutcome
    /\ UNCHANGED <<backup_api_key, primary_client, calls, newsletter>>
    /\ UNCHANGED <<snapshot, mainResult>>
    /\ UNCHANGED collectVars
    /\ UNCHANGED sendVars

CheckDeepseekAvailability_Propagates ==
    /\ pc = "probe"
    /\ \E out \in {"ok", "client_raises", "call_raises"} :
          /\ calls' = Append(calls, Call("probe", out, NoText))
          /\ primary_client' = (primary_client \/ out # "client_raises")
          /\ pc' = IF out = "ok" THEN "primary"
                   ELSE IF out = "client_raises" THEN "gen_raised" ELSE "backup"
          /\ genOutcome' = IF out = "client_raises" THEN "OpenAIError" ELSE genOutcome
    /\ UNCHANGED <<backup_api_key, prompt, newsletter>>
    /\ UNCHANGED <<snapshot, mainResult>>
    /\ UNCHANGED collectVars
    /\ UNCHANGED sendVars

CheckDeepseekAvailability_IgnoresFailure ==
    /\ pc = "probe"
    /\ \E out \in {"ok", "client_raises", "call_raises"} :
          /\ calls' = Append(calls, Call("probe", out, NoText))
          /\ primary_client' = (primary_client \/ out # "client_raises")
          /\ pc' = "primary"
    /\ UNCHANGED <<backup_api_key, prompt, newsletter, genOutcome>>
    /\ UNCHANGED <<snapshot, mainResult>>
    /\ UNCHANGED collectVars
    /\ UNCHANGED sendVars

\* lines 226, 191-211: the probe; creating the client or the test call may raise
CheckDeepseekAvailability ==
    /\ pc = "probe"
    /\ \E out \in {"ok", "client_raises", "call_raises"} :
          /\ calls' = Append(calls, Call("probe", out, NoText))
          /\ primary_client' = (primary_client \/ out # "client_raises")
          /\ pc' = IF out = "ok" THEN "primary" ELSE "backup"
    /\ UNCHANGED <<backup_api_key, prompt, newsletter, genOutcome>>
    /\ UNCHANGED <<snapshot, mainResult>>
    /\ UNCHANGED collectVars
    /\ UNCHANGED sendVars

GenerateWithDeepseek_RaisesToCaller ==
    /\ pc = "primary"
    /\ \/ \E t \in Texts :
             /\ calls' = Append(calls, Call("deepseek", "ok", t))
             /\ newsletter' = t
             /\ genOutcome' = "returned"
             /\ pc' = "gen_done"
       \/ /\ calls' = Append(calls, Call("deepseek", "raises", NoText))
          /\ genOutcome' = "Erro ao gerar newsletter com DeepSeek"
          /\ pc' = "gen_raised"
          /\ UNCHANGED newsletter
    /\ UNCHANGED <<backup_api_key, primary_client, prompt>>
    /\ UNCHANGED <<snapshot, mainResult>>
    /\ UNCHANGED collectVars
    /\ UNCHANGED sendVars

\* lines 227-231, 243-275: the primary completion
GenerateWithDeepseek ==
    /\ pc = "primary"
    /\ \/ \E t \in Texts :
             /\ calls' = Append(calls, Call("deepseek", "ok", t))
             /\ newsletter' = t
             /\ genOutcome' = "returned"
             /\ pc' = "gen_done"
       \/ /\ calls' = Append(calls, Call("deepseek", "raises", NoText))
          /\ pc' = "backup"
          /\ UNCHANGED <<newsletter, genOutcome>>
    /\ UNCHANGED <<backup_api_key, primary_client, prompt>>
    /\ UNCHANGED <<snapshot, mainResult>>
    /\ UNCHANGED collectVars
    /\ UNCHANGED sendVars

GenerateWithOpenai_SwallowsFailure ==
    /\ pc = "backup"
    /\ Truthy(backup_api_key)
    /\ \/ \E t \in Texts :
             /\ calls' = Append(calls, Call("openai", "ok", t))
             /\ newsletter' = t
             /\ genOutcome' = "returned"
             /\ pc' = "gen_done"
       \/ /\ calls' = Append(calls, Call("openai", "raises", NoText))
          /\ newsletter' = <<>>
          /\ genOutcome' = "returned"
          /\ pc' = "gen_done"
    /\ UNCHANGED <<backup_api_key, primary_client, prompt>>
    /\ UNCHANGED <<snapshot, mainResult>>
    /\ UNCHANGED collectVars
    /\ UNCHANGED sendVars

\* lines 234-239, 277-309: the backup completion
GenerateWithOpenai ==
    /\ pc = "backup"
    /\ Truthy(backup_api_key)
    /\ \/ \E t \in Texts :
             /\ calls' = Append(calls, Call("openai", "ok", t))
             /\ newsletter' = t
             /\ genOutcome' = "returned"
             /\ pc' = "gen_done"
       \/ /\ calls' = Append(calls, Call("openai", "raises", NoText))
          /\ genOutcome' = "Todos os provedores LLM falharam"
          /\ pc' = "gen_raised"
          /\ UNCHANGED newsletter
    /\ UNCHANGED <<backup_api_key, primary_client, prompt>>
    /\ UNCHANGED <<snapshot, mainResult>>
    /\ UNCHANGED collectVars
    /\ UNCHANGED sendVars

NoBackupConfigured_ReturnsEmpty ==
    /\ pc = "backup"
    /\ ~Truthy(backup_api_key)
    /\ genOutcome' = "returned"
    /\ newsletter' = <<>>
    /\ pc' = "gen_done"
    /\ UNCHANGED <<backup_api_key, primary_client, prompt, calls>>
    /\ UNCHANGED <<snapshot, mainResult>>
    /\ UNCHANGED collectVars
    /\ UNCHANGED sendVars

\* lines 240-241
NoBackupConfigured ==
    /\ pc = "backup"
    /\ ~Truthy(backup_api_key)
    /\ genOutcome' = "API de backup nao configurada e DeepSeek indisponivel"
    /\ pc' = "gen_raised"
    /\ UNCHANGED <<backup_api_key, primary_client, prompt, calls, newsletter>>
    /\ UNCHANGED <<snapshot, mainResult>>
    /\ UNCHANGED collectVars
    /\ UNCHANGED sendVars

(***************************************************************************)
(* send_email.                                                             *)
(***************************************************************************)
PortValues == {"unset", "587", "0", "abc"}      \* os.getenv("SMTP_PORT")

\* int(os.getenv("SMTP_PORT", "587")), for the values int() accepts
IntOfPort(p) == IF p = "0" THEN 0 ELSE 587

\* line 414: [email.strip() for email in email_to_string.split(',')]
EmailToList(email_to_string) ==
    LET parts == Split(email_to_string, ",")
    IN  [k \in 1..Len(parts) |-> Strip(parts[k])]

Smtp(op, to, out) == [op |-> op, to |-> to, out |-> out]

\* lines 513-523: the message for one recipient; its plain part is the text
Message_WithoutText(to, text) == [to |-> to, plain |-> <<>>]

Message(to, text) == [to |-> to, plain |-> text]

\* what a command on the connection can do: once the connection is gone,
\* smtplib raises SMTPServerDisconnected
Outcomes(s, whenOpen) == IF s = "open" THEN whenOpen ELSE {"disconnected"}

\* lines 399-419: the configuration; EMAIL_TO unset or empty is <<>>
SendEmailConfig(maxLen) ==
    /\ pc = "send_email"
    /\ \E credentials \in BOOLEAN, port \in PortValues,
          email_to_string \in SeqsUpTo(EmailChars, maxLen) :
          IF port = "abc"
          THEN /\ pc' = "send_raised"
               /\ smtp_config' = "bad_port"
               /\ UNCHANGED <<email_to_list, sendResult>>
          ELSE IF ~(credentials /\ IntOfPort(port) # 0 /\ email_to_string # <<>>)
          THEN /\ sendResult' = FALSE
               /\ pc' = "send_done"
               /\ smtp_config' = "incomplete"
               /\ UNCHANGED email_to_list
          ELSE /\ email_to_list' = EmailToList(email_to_string)
               /\ smtp_config' = "ok"
               /\ IF email_to_list' = <<>>
                  THEN sendResult' = FALSE /\ pc' = "send_done"
                  ELSE pc' = "smtp_connect" /\ UNCHANGED sendResult
    /\ UNCHANGED <<sendIdx, successful_sends, session, smtp, outbox>>
    /\ UNCHANGED <<snapshot, mainResult>>
    /\ UNCHANGED collectVars
    /\ UNCHANGED genVars

\* line 494: smtplib.SMTP(smtp_server, smtp_port, timeout=30)
SmtpConnect ==
    /\ pc = "smtp_connect"
    /\ \E out \in {"ok", "error"} :
          /\ smtp' = Append(smtp, Smtp("connect", <<>>, out))
          /\ IF out = "ok"
             THEN /\ session' = "open"
                  /\ pc' = "smtp_starttls"
                  /\ UNCHANGED sendResult
             ELSE /\ sendResult' = FALSE
                  /\ pc' = "send_done"
                  /\ UNCHANGED session
    /\ UNCHANGED <<email_to_list, sendIdx, successful_sends, smtp_config, outbox>>
    /\ UNCHANGED <<snapshot, mainResult>>
    /\ UNCHANGED collectVars
    /\ UNCHANGED genVars

SessionCommand_ContinuesOnFailure(op, at, next) ==
    /\ pc = at
    /\ \E out \in {"ok", "error", "disconnected"} :
          /\ smtp' = Append(smtp, Smtp(op, <<>>, out))
          /\ session' = IF out = "disconnected" THEN "closed" ELSE session
          /\ pc' = next
          /\ UNCHANGED sendResult
    /\ UNCHANGED <<email_to_list, smtp_config, outbox>>
    /\ UNCHANGED <<snapshot, mainResult>>
    /\ UNCHANGED collectVars
    /\ UNCHANGED genVars

\* a command of the session set-up: op, and where control goes when it succeeds
SessionCommand(op, at, next) ==
    /\ pc = at
    /\ \E out \in {"ok", "error", "disconnected"} :
          /\ smtp' = Append(smtp, Smtp(op, <<>>, out))
          /\ session' = IF out = "disconnected" THEN "closed" ELSE session
          /\ IF out = "ok"
             THEN /\ pc' = next
                  /\ UNCHANGED sendResult
             ELSE /\ sendResult' = FALSE
                  /\ pc' = "send_done"
    /\ UNCHANGED <<email_to_list, smtp_config, outbox>>
    /\ UNCHANGED <<snapshot, mainResult>>
    /\ UNCHANGED collectVars
    /\ UNCHANGED genVars

\* line 499: server.starttls()
SmtpStarttls ==
    /\ SessionCommand("starttls", "smtp_starttls", "smtp_login")
    /\ UNCHANGED <<sendIdx, successful_sends>>

\* lines 503-507: server.login(...); successful_sends = 0
SmtpLogin ==
    /\ SessionCommand("login", "smtp_login", "smtp_sendmail")
    /\ sendIdx' = 1
    /\ successful_sends' = 0

SendMail_ReconnectsEachTime ==
    /\ pc = "smtp_sendmail"
    /\ sendIdx <= Len(email_to_list)
    /\ \E out \in {"ok", "refused", "disconnected"} :
          /\ smtp' = smtp \o << Smtp("connect", <<>>, "ok"), Smtp("login", <<>>, "ok"),
                                Smtp("sendmail", email_to_list[sendIdx], out) >>
          /\ session' = IF out = "disconnected" THEN "closed" ELSE "open"
          /\ successful_sends' = IF out = "ok" THEN successful_sends + 1
                                               ELSE successful_sends
          /\ outbox' = IF out = "ok"
                        THEN Append(outbox, Message(email_to_list[sendIdx], newsletter))
                        ELSE outbox
    /\ sendIdx' = sendIdx + 1
    /\ UNCHANGED <<pc, email_to_list, sendResult, smtp_config>>
    /\ UNCHANGED <<snapshot, mainResult>>
    /\ UNCHANGED collectVars
    /\ UNCHANGED genVars

SendMail_StopsAtFailure ==
    /\ pc = "smtp_sendmail"
    /\ sendIdx <= Len(email_to_list)
    /\ \E out \in Outcomes(session, {"ok", "refused", "disconnected"}) :
          /\ smtp' = Append(smtp, Smtp("sendmail", email_to_list[sendIdx], out))
          /\ session' = IF out = "disconnected" THEN "closed" ELSE session
          /\ successful_sends' = IF out = "ok" THEN successful_sends + 1
                                               ELSE successful_sends
          /\ outbox' = IF out = "ok"
                        THEN Append(outbox, Message(email_to_list[sendIdx], newsletter))
                        ELSE outbox
    /\ sendIdx' = IF successful_sends' = successful_sends THEN Len(email_to_list) + 1
                                                            ELSE sendIdx + 1
    /\ UNCHANGED <<pc, email_to_list, sendResult, smtp_config>>
    /\ UNCHANGED <<snapshot, mainResult>>
    /\ UNCHANGED collectVars
    /\ UNCHANGED genVars

\* lines 510-532: one recipient of the loop
SendMail ==
    /\ pc = "smtp_sendmail"
    /\ sendIdx <= Len(email_to_list)
    /\ \E out \in Outcomes(session, {"ok", "refused", "disconnected"}) :
          /\ smtp' = Append(smtp, Smtp("sendmail", email_to_list[sendIdx], out))
          /\ session' = IF out = "disconnected" THEN "closed" ELSE session
          /\ successful_sends' = IF out = "ok" THEN successful_sends + 1
                                               ELSE successful_sends
          /\ outbox' = IF out = "ok"
                        THEN Append(outbox, Message(email_to_list[sendIdx], newsletter))
                        ELSE outbox
    /\ sendIdx' = sendIdx + 1
    /\ UNCHANGED <<pc, email_to_list, sendResult, smtp_config>>
    /\ UNCHANGED <<snapshot, mainResult>>
    /\ UNCHANGED collectVars
    /\ UNCHANGED genVars

\* lines 535-539, 541-552: server.quit() and the value returned
SmtpQuit ==
    /\ pc = "smtp_sendmail"
    /\ sendIdx > Len(email_to_list)
    /\ \E out \in Outcomes(session, {"ok", "disconnected"}) :
          /\ smtp' = Append(smtp, Smtp("quit", <<>>, out))
          /\ sendResult' = IF out = "ok" THEN successful_sends = Len(email_to_list)
                                         ELSE FALSE
    /\ session' = "closed"
    /\ pc' = "send_done"
    /\ UNCHANGED <<email_to_list, sendIdx, successful_sends, smtp_config, outbox>>
    /\ UNCHANGED <<snapshot, mainResult>>
    /\ UNCHANGED collectVars
    /\ UNCHANGED genVars

\* a call send_email(newsletter_text)
InitSend ==
    /\ pc = "send_email"
    /\ comments_per_post = 0
    /\ newsletter \in Texts
    /\ genOutcome = "none"
    /\ InitRest

NextSend ==
    \/ SendEmailConfig(MaxEmailLen)
    \/ SmtpConnect
    \/ SmtpStarttls
    \/ SmtpLogin
    \/ SendMail
    \/ SmtpQuit

SpecSend == InitSend /\ [][NextSend]_vars

\* a call of _prepare_prompt(content), as generate_newsletter makes it
InitPrompt ==
    /\ pc = "generate"
    /\ comments_per_post = 0
    /\ newsletter = NoText
    /\ genOutcome = "none"
    /\ posts = <<>>
    /\ idx = 0
    /\ response = NoResponse
    /\ collected_content = <<>>
    /\ content \in PromptContents(MaxPromptPosts, MaxPromptComments)
    /\ sleeps = 0
    /\ snapshot = "none"
    /\ backup_api_key = "None"
    /\ primary_client = FALSE
    /\ prompt = <<>>
    /\ calls = <<>>
    /\ email_to_list = <<>>
    /\ sendIdx = 0
    /\ successful_sends = 0
    /\ session = "none"
    /\ smtp = <<>>
    /\ sendResult = FALSE
    /\ mainResult = "running"
    /\ listing_status = 0
    /\ smtp_config = "unread"
    /\ outbox = <<>>

NextPrompt == PreparePrompt

SpecPrompt == InitPrompt /\ [][NextPrompt]_vars

(***************************************************************************)
(* main.                                                                   *)
(***************************************************************************)
MainCommentsPerPost == 5

\* lines 564-575: the configuration, the scraper and the generator
MainStart ==
    /\ pc = "main"
    /\ \E subreddit \in BOOLEAN, openai_api_key \in BOOLEAN, key \in BackupKeys :
          IF ~(subreddit /\ openai_api_key)
          THEN /\ mainResult' = "config_missing"
               /\ pc' = "main_done"
               /\ UNCHANGED <<backup_api_key, comments_per_post>>
          ELSE /\ backup_api_key' = key
               /\ comments_per_post' = MainCommentsPerPost
               /\ pc' = "collect"
               /\ UNCHANGED mainResult
    /\ UNCHANGED <<posts, idx, response, collected_content, content, sleeps,
                   listing_status>>
    /\ UNCHANGED <<primary_client, prompt, calls, newsletter, genOutcome>>
    /\ UNCHANGED snapshot
    /\ UNCHANGED sendVars

\* lines 586, 367-385: the snapshot; a failure to write is caught inside
SaveContentToJson ==
    /\ pc = "collect_done"
    /\ \E s \in {"written", "failed"} : snapshot' = s
    /\ pc' = "generate"
    /\ UNCHANGED mainResult
    /\ UNCHANGED collectVars
    /\ UNCHANGED genVars
    /\ UNCHANGED sendVars

MainCheckNewsletter_TestsEmptyOnly ==
    /\ pc = "gen_done"
    /\ IF newsletter # <<>>
       THEN /\ pc' = "send_email"
            /\ UNCHANGED mainResult
       ELSE /\ mainResult' = "empty_newsletter"
            /\ pc' = "main_done"
    /\ UNCHANGED snapshot
    /\ UNCHANGED collectVars
    /\ UNCHANGED genVars
    /\ UNCHANGED sendVars

MainCheckNewsletter_RegeneratesOnEmpty ==
    /\ pc = "gen_done"
    /\ IF Strip(newsletter) # <<>>
       THEN /\ pc' = "send_email"
            /\ UNCHANGED mainResult
       ELSE /\ pc' = "generate"
            /\ UNCHANGED mainResult
    /\ UNCHANGED snapshot
    /\ UNCHANGED collectVars
    /\ UNCHANGED genVars
    /\ UNCHANGED sendVars

\* lines 590-600: the text returned; an empty one is only reported
MainCheckNewsletter ==
    /\ pc = "gen_done"
    /\ IF Strip(newsletter) # <<>>
       THEN /\ pc' = "send_email"
            /\ UNCHANGED mainResult
       ELSE /\ mainResult' = "empty_newsletter"
            /\ pc' = "main_done"
    /\ UNCHANGED snapshot
    /\ UNCHANGED collectVars
    /\ UNCHANGED genVars
    /\ UNCHANGED sendVars

\* lines 595-598
MainAfterSend ==
    /\ pc = "send_done"
    /\ mainResult' = IF sendResult THEN "sent_to_all" ELSE "send_failures"
    /\ pc' = "main_done"
    /\ UNCHANGED snapshot
    /\ UNCHANGED collectVars
    /\ UNCHANGED genVars
    /\ UNCHANGED sendVars

MainExcept_NotAroundSendEmail ==
    /\ pc \in {"collect_raised", "gen_raised", "send_raised"}
    /\ mainResult' = IF pc = "send_raised" THEN "ValueError propagated" ELSE "error"
    /\ pc' = "main_done"
    /\ UNCHANGED snapshot
    /\ UNCHANGED collectVars
    /\ UNCHANGED genVars
    /\ UNCHANGED sendVars

MainExcept_DeliversAnyway ==
    /\ pc \in {"collect_raised", "gen_raised", "send_raised"}
    /\ IF pc = "gen_raised"
       THEN pc' = "send_email" /\ UNCHANGED mainResult
       ELSE pc' = "main_done" /\ mainResult' = "error"
    /\ UNCHANGED snapshot
    /\ UNCHANGED collectVars
    /\ UNCHANGED genVars
    /\ UNCHANGED sendVars

\* lines 602-603: except Exception
MainExcept ==
    /\ pc \in {"collect_raised", "gen_raised", "send_raised"}
    /\ mainResult' = "error"
    /\ pc' = "main_done"
    /\ UNCHANGED snapshot
    /\ UNCHANGED collectVars
    /\ UNCHANGED genVars
    /\ UNCHANGED sendVars

Init ==
    /\ pc = "main"
    /\ comments_per_post = 0
    /\ newsletter = NoText
    /\ genOutcome = "none"
    /\ InitRest

Next ==
    \/ MainStart
    \/ GetTopDailyPosts(ListingResponses(MainMaxPosts, MainScores, PlainUrls))
    \/ RequestComments(CommentResponses(MainMaxComments, MainScores))
    \/ AppendPostContent
    \/ CollectReturn
    \/ SaveContentToJson
    \/ PreparePrompt
    \/ CheckDeepseekAvailability
    \/ GenerateWithDeepseek
    \/ GenerateWithOpenai
    \/ NoBackupConfigured
    \/ MainCheckNewsletter
    \/ SendEmailConfig(MainMaxEmailLen)
    \/ SmtpConnect
    \/ SmtpStarttls
    \/ SmtpLogin
    \/ SendMail
    \/ SmtpQuit
    \/ MainAfterSend
    \/ MainExcept

Spec == Init /\ [][Next]_vars

\* main is one sequential program: a step that can be taken is taken
FairSpec == Spec /\ WF_vars(Next)

(***************************************************************************)
(* Properties of collect_daily_content (checked under SpecCollect).        *)
(***************************************************************************)
SortedNonIncreasing(s) ==
    \A a, b \in 1..Len(s) : a < b => s[a].score >= s[b].score

\* C7: in every result of collect_daily_content the threads are sorted
\* non-increasing by score: a thread that precedes another has a score at
\* least as large (negative and equal scores included).
C7_ThreadsSortedByScore ==
    content.built => SortedNonIncreasing(content.posts)

\* a result of two threads, where the thread that arrived second, with the
\* larger score, comes first, before a thread of negative score
C7_Witness ==
    /\ content.built
    /\ Len(content.posts) = 2
    /\ content.posts[1].reddit_url = 2
    /\ content.posts[1].score > content.posts[2].score
    /\ content.posts[2].score < 0

\* the reply nodes of the last comments response that have a body
Bodied(resp) == {n \in 1..Len(resp.children) : resp.children[n].body}

C9_NoParseFailurePropagates ==
    ~(/\ pc = "collect_raised"
      /\ response.net = "ok"
      /\ response.status = 200
      /\ response.json \in {"missing_key", "index_error"})

(***************************************************************************)
(* Properties of generate_newsletter (checked under Spec).                 *)
(***************************************************************************)
Called(fn)     == \E k \in 1..Len(calls) : calls[k].fn = fn
CalledOut(fn, out) == \E k \in 1..Len(calls) : calls[k].fn = fn /\ calls[k].out = out
ProbeFalse     == calls # <<>> /\ calls[1].fn = "probe" /\ calls[1].out # "ok"
Raised         == genOutcome \notin {"none", "returned"}

\* C1: when the probe reports the primary unavailable and the configured
\* backup's completion succeeds, generate_newsletter returns the backup's
\* text, and the primary completion is never called.
C1_ProbeFalseUsesBackup ==
    ProbeFalse =>
        /\ ~Called("deepseek")
        /\ \A k \in 1..Len(calls) :
              (calls[k].fn = "openai" /\ calls[k].out = "ok") =>
                  /\ Truthy(backup_api_key)
                  /\ genOutcome = "returned"
                  /\ newsletter = calls[k].text

\* the probe failed and the backup returned a text with something in it
C1_Witness ==
    /\ ProbeFalse
    /\ Len(calls) = 2
    /\ calls[2] = Call("openai", "ok", <<"T">>)
    /\ genOutcome = "returned"
    /\ newsletter = <<"T">>

\* C2: when the probe succeeds, the primary completion raises and no backup
\* is configured, generate_newsletter ends by raising: it never returns a
\* text, and the backup is never called.
C2_PrimaryFailsNoBackupRaises ==
    (CalledOut("probe", "ok") /\ CalledOut("deepseek", "raises")
        /\ ~Truthy(backup_api_key)) =>
        /\ ~Called("openai")
        /\ genOutcome # "returned"
        /\ pc # "backup" => /\ Raised
                            /\ pc \in {"gen_raised", "main_done"}

\* the exception raised to the caller in that case
C2_Witness ==
    /\ CalledOut("probe", "ok")
    /\ CalledOut("deepseek", "raises")
    /\ ~Truthy(backup_api_key)
    /\ pc = "gen_raised"
    /\ Raised

(***************************************************************************)
(* Properties of send_email (checked under SpecSend).                      *)
(***************************************************************************)
Sendmails == SelectSeq(smtp, LAMBDA e : e.op = "sendmail")
SetupFailed ==
    \E k \in 1..Len(smtp) : smtp[k].op \in {"connect", "starttls", "login"}
                            /\ smtp[k].out # "ok"
LoggedIn == \E k \in 1..Len(smtp) : smtp[k].op = "login" /\ smtp[k].out = "ok"
Succeeded == SelectSeq(Sendmails, LAMBDA e : e.out = "ok")

\* C3: once the session is established, the recipients are attempted once
\* each, in list order, whatever sends raise: the attempts made so far are
\* a prefix of the list, the call does not return before all are made, the
\* counter is the number of sends that did not raise, and a call in which
\* a send raised does not return True.
C3_EveryRecipientAttempted ==
    LoggedIn =>
        /\ Len(Sendmails) <= Len(email_to_list)
        /\ \A k \in 1..Len(Sendmails) : Sendmails[k].to = email_to_list[k]
        /\ successful_sends = Len(Succeeded)
        /\ pc = "send_done" =>
              /\ Len(Sendmails) = Len(email_to_list)
              /\ (Len(Succeeded) < Len(Sendmails)) => ~sendResult

\* recipients [a, b, a], the send to b raising: all three attempted, two
\* sent, the call returns False
C3_Witness ==
    /\ pc = "send_done"
    /\ email_to_list = << <<"a">>, <<"b">>, <<"a">> >>
    /\ Len(Sendmails) = 3
    /\ Sendmails[1].out = "ok"
    /\ Sendmails[2].out = "refused"
    /\ Sendmails[3].out = "ok"
    /\ successful_sends = 2
    /\ ~sendResult

\* C4 (as claimed): the value send_email returns is True exactly when the
\* send to every recipient of the list completed without error.
C4_TrueIffAllSent ==
    (pc = "send_done" /\ email_to_list # <<>>) =>
        (sendResult <=> /\ Len(Sendmails) = Len(email_to_list)
                        /\ Len(Succeeded) = Len(email_to_list))

\* C5 (as claimed): no call returns with an opened session left unclosed.
C5_SessionClosedOnReturn ==
    pc \in {"send_done", "send_raised"} => session # "open"

\* C6: when connecting, starting TLS or authenticating raises, no send is
\* attempted for any recipient and the call returns False without raising.
C6_SetupFailureAborts ==
    SetupFailed =>
        /\ Sendmails = <<>>
        /\ pc = "send_done"
        /\ ~sendResult

\* the authentication was refused
C6_Witness ==
    /\ Len(smtp) = 3
    /\ smtp[3].op = "login" /\ smtp[3].out = "error"
    /\ Len(email_to_list) >= 2
    /\ pc = "send_done"
    /\ ~sendResult

(***************************************************************************)
(* Properties of main (checked under Spec).                                *)
(***************************************************************************)
\* C10: when generate_newsletter ends by raising (all providers failed, or
\* the primary failed and no backup is configured), the run ends without
\* delivery: no SMTP session is opened and no send is attempted.
C10_FatalGenerationNoDelivery ==
    Raised =>
        /\ smtp = <<>>
        /\ session = "none"
        /\ email_to_list = <<>>
        /\ pc \in {"gen_raised", "main_done"}
        /\ pc = "main_done" => mainResult = "error"

\* the run has ended after both providers failed
C10_Witness ==
    /\ pc = "main_done"
    /\ genOutcome = "Todos os provedores LLM falharam"
    /\ CalledOut("deepseek", "raises")
    /\ CalledOut("openai", "raises")
    /\ smtp = <<>>

(***************************************************************************)
(* Properties of _prepare_prompt (checked under SpecPrompt).               *)
(***************************************************************************)
\* some dict of the content lacks a key
KeyMissing ==
    \/ content.missing # "none"
    \/ \E i \in 1..Len(content.posts) :
          \/ content.posts[i].missing # "none"
          \/ \E k \in 1..Len(content.posts[i].comments) :
                content.posts[i].comments[k].missing # "none"

PromptPrepared == pc # "generate"

\* C18 (as claimed): _prepare_prompt never raises on a content with a
\* missing key; a prompt is still returned.
C18_NeverRaisesOnMissingKey ==
    (PromptPrepared /\ KeyMissing) => (pc = "probe" /\ prompt # <<>>)

\* C18 (amended): _prepare_prompt returns a prompt, with one "Post" line per
\* post, exactly when no dict of the content lacks a key; when one does, it
\* raises KeyError and no prompt is built.
C18_RaisesIffKeyMissing ==
    PromptPrepared =>
        IF KeyMissing
        THEN pc = "gen_raised" /\ genOutcome = "KeyError" /\ prompt = <<>>
        ELSE /\ pc = "probe"
             /\ genOutcome = "none"
             /\ Len(SelectSeq(prompt, LAMBDA l : l = "Post")) = Len(content.posts)

\* a reply without its 'score' key, in a post that has all its keys
C18_Witness ==
    /\ pc = "gen_raised"
    /\ content.missing = "none"
    /\ Len(content.posts) = 1
    /\ content.posts[1].missing = "none"
    /\ Len(content.posts[1].comments) = 1
    /\ content.posts[1].comments[1].missing = "score"

(***************************************************************************)
(* More properties of generate_newsletter (checked under Spec).            *)
(***************************************************************************)
BackupPathFailures == {"Todos os provedores LLM falharam",
                       "API de backup nao configurada e DeepSeek indisponivel"}

CallsOf(fn) == {k \in 1..Len(calls) : calls[k].fn = fn}

\* generate_newsletter has returned or raised
GenerationEnded == pc \notin {"main", "collect", "collect_loop", "comments_response",
                              "collect_raised", "collect_done", "generate", "probe",
                              "primary", "backup"}
                   /\ mainResult # "config_missing"
                   /\ (pc = "main_done" => genOutcome # "none")

\* C12: an exception of the probe (creating the client, or the test call)
\* is never raised to the caller of generate_newsletter: the step that
\* records the failed probe goes to the backup path, and any failure of the
\* call that follows is one of the backup path's own.
C12_ProbeFailureNotFatal ==
    /\ [](ProbeFalse =>
            /\ ~Called("deepseek")
            /\ genOutcome \in {"none", "returned"} \cup BackupPathFailures
            /\ (genOutcome = "none" => pc = "backup" /\ Len(calls) = 1)
            /\ (genOutcome # "none" =>
                  \/ Called("openai") /\ Truthy(backup_api_key)
                  \/ /\ ~Truthy(backup_api_key)
                     /\ genOutcome = "API de backup nao configurada e DeepSeek indisponivel"))
    /\ [][(pc = "probe" /\ calls' # calls /\ calls'[Len(calls')].out # "ok")
            => (pc' = "backup" /\ genOutcome' = genOutcome)]_vars

\* the primary client could not be created; control is on the backup path
C12_Witness ==
    /\ calls = <<Call("probe", "client_raises", NoText)>>
    /\ ~primary_client
    /\ pc = "backup"
    /\ genOutcome = "none"

\* C13: the primary is probed exactly once, first; the primary completion
\* is called at most once, right after a successful probe; when it raises,
\* control is on the backup path; when it succeeds, it is the last call and
\* its text is returned.
C13_ProbeOncePrimaryOnce ==
    /\ (calls # <<>> => CallsOf("probe") = {1})
    /\ (pc \in {"primary", "backup", "gen_done", "gen_raised"} => calls # <<>>)
    /\ (GenerationEnded => calls # <<>>)
    /\ CallsOf("deepseek") \subseteq {2}
    /\ (Called("deepseek") => calls[1].out = "ok")
    /\ (CalledOut("deepseek", "raises") =>
          \/ pc = "backup" /\ Len(calls) = 2 /\ genOutcome = "none"
          \/ Len(calls) = 3 /\ calls[3].fn = "openai" /\ Truthy(backup_api_key)
          \/ /\ Len(calls) = 2 /\ ~Truthy(backup_api_key)
             /\ genOutcome = "API de backup nao configurada e DeepSeek indisponivel")
    /\ (CalledOut("deepseek", "ok") =>
          /\ Len(calls) = 2
          /\ genOutcome = "returned"
          /\ newsletter = calls[2].text)

\* the primary completion raised after a good probe, and the backup answered
C13_Witness ==
    /\ Len(calls) = 3
    /\ calls[1] = Call("probe", "ok", NoText)
    /\ calls[2] = Call("deepseek", "raises", NoText)
    /\ calls[3].fn = "openai"
    /\ calls[3].out = "ok"
    /\ pc = "gen_done"

\* the backup path was taken: the probe failed or the primary raised
BackupPathTaken == ProbeFalse \/ CalledOut("deepseek", "raises")

\* C14: on the backup path with a backup configured, the backup completion
\* is called exactly once and is the last provider call; its success is the
\* text returned, its exception is the failure raised to the caller.  A
\* call of generate_newsletter ends either returning a text or raising.
C14_BackupOnceTerminal ==
    /\ Cardinality(CallsOf("openai")) <= 1
    /\ CallsOf("openai") \subseteq {Len(calls)}
    /\ (Called("openai") => BackupPathTaken /\ Truthy(backup_api_key))
    /\ (BackupPathTaken /\ Truthy(backup_api_key) /\ pc # "backup" => Called("openai"))
    /\ (CalledOut("openai", "ok") =>
          genOutcome = "returned" /\ newsletter = calls[Len(calls)].text)
    /\ (CalledOut("openai", "raises") =>
          /\ genOutcome = "Todos os provedores LLM falharam"
          /\ newsletter = NoText
          /\ pc \in {"gen_raised", "main_done"}
          /\ pc = "main_done" => mainResult = "error")
    /\ (pc = "gen_done" => genOutcome = "returned")
    /\ (pc = "gen_raised" => Raised /\ newsletter = NoText)
    /\ (GenerationEnded => genOutcome # "none")

\* both providers were called and the backup raised: the hard failure
C14_Witness ==
    /\ Len(calls) = 3
    /\ calls[2] = Call("deepseek", "raises", NoText)
    /\ calls[3] = Call("openai", "raises", NoText)
    /\ pc = "gen_raised"
    /\ genOutcome = "Todos os provedores LLM falharam"

(***************************************************************************)
(* More properties of send_email (checked under SpecSend).                 *)
(***************************************************************************)
SmtpOps(op) == {k \in 1..Len(smtp) : smtp[k].op = op}

\* C15: a call of send_email opens at most one SMTP connection, whatever the
\* number of recipients and of failed sends; every sendmail comes after the
\* successful login of that connection and before its quit.
C15_OneSessionForBatch ==
    /\ SmtpOps("connect") \subseteq {1}
    /\ Cardinality(SmtpOps("login")) <= 1
    /\ Cardinality(SmtpOps("quit")) <= 1
    /\ \A k \in SmtpOps("sendmail") :
          /\ smtp[1].out = "ok"
          /\ \E j \in SmtpOps("login") : j < k /\ smtp[j].out = "ok"
          /\ \A q \in SmtpOps("quit") : k < q

\* two recipients, the first send refused, the second sent, then quit
C15_Witness ==
    /\ Len(email_to_list) = 2
    /\ Cardinality(SmtpOps("sendmail")) = 2
    /\ \E k \in SmtpOps("sendmail") :
          /\ smtp[k].out = "refused"
          /\ k + 1 \in SmtpOps("sendmail")
          /\ smtp[k + 1].out = "ok"
    /\ SmtpOps("quit") = {Len(smtp)}
    /\ pc = "send_done"

(***************************************************************************)
(* The stages of main (checked under Spec).                                *)
(***************************************************************************)
\* the stage a control position belongs to: 1 collection, 2 snapshot write,
\* 3 prompt construction, 4 generation, 5 delivery
Stage(p) ==
    CASE p = "main" -> 0
      [] p \in {"collect", "collect_loop", "comments_response", "collect_raised"} -> 1
      [] p = "collect_done" -> 2
      [] p = "generate" -> 3
      [] p \in {"probe", "primary", "backup", "gen_done", "gen_raised"} -> 4
      [] p \in {"send_email", "smtp_connect", "smtp_starttls", "smtp_login",
                "smtp_sendmail", "send_done", "send_raised"} -> 5
      [] p = "main_done" -> 6

\* C16: main runs collection, snapshot write, prompt construction and
\* generation, delivery in that order: what a stage produces exists only
\* when the stages before it have completed, control never goes back to an
\* earlier stage, a stage is entered only from the completed previous one,
\* and each stage's product is written once.
C16_StagesInOrder ==
    /\ [](/\ (snapshot # "none" => content.built)
          /\ (prompt # <<>> \/ genOutcome # "none" => snapshot # "none")
          /\ (calls # <<>> => prompt # <<>>)
          /\ (smtp_config # "unread" \/ smtp # <<>> => genOutcome = "returned"))
    /\ [][/\ Stage(pc') >= Stage(pc)
          /\ (Stage(pc') > Stage(pc) /\ pc' # "main_done" =>
                /\ Stage(pc') = Stage(pc) + 1
                /\ pc \in {"main", "collect_loop", "collect_done", "generate", "gen_done"})
          /\ (content' # content => ~content.built /\ Stage(pc) = 1)
          /\ (snapshot' # snapshot => snapshot = "none" /\ Stage(pc) = 2)
          /\ (prompt' # prompt => prompt = <<>> /\ Stage(pc) = 3)
          /\ (calls' # calls \/ genOutcome' # genOutcome => Stage(pc) = 4)
          /\ (smtp' # smtp \/ smtp_config' # smtp_config => Stage(pc) = 5)]_vars

\* a run that went through every stage
C16_Witness ==
    /\ pc = "main_done"
    /\ content.built
    /\ snapshot = "written"
    /\ prompt # <<>>
    /\ genOutcome = "returned"
    /\ Len(smtp) >= 5
    /\ mainResult = "sent_to_all"

(***************************************************************************)
(* The pause of collect_daily_content (checked under SpecCollect).         *)
(***************************************************************************)
\* the posts whose comments have been requested and whose request has ended,
\* with a list of comments or with a failure
ThreadsFetched ==
    CASE pc = "collect_loop"                -> idx - 1
      [] pc = "collect_raised" /\ idx >= 1  -> idx
      [] pc = "collect_done"                -> Len(content.posts)
      [] OTHER                              -> sleeps

\* C17: collect_daily_content pauses once after the comments of each post
\* have been fetched, also when that fetch failed: the number of pauses is
\* the number of posts whose comments were fetched.
C17_PauseAfterEveryFetch == sleeps = ThreadsFetched

(***************************************************************************)
(* external_url (checked under SpecPosts).                                 *)
(***************************************************************************)
\* the URL targets the domain of the scraper's base URL
TargetsFeedDomain(u) == StartsWith(u, Take(BaseUrl, 3))

\* C20: of a post returned by get_top_daily_posts, external_url is set, to
\* the post's URL, only if that URL does not target the domain of the base
\* URL; it is None when the URL targets that domain or the post has no URL.
C20_ExternalUrlOnlyOffDomain ==
    pc = "collect_loop" =>
        \A k \in 1..Len(posts) :
            LET u == response.children[posts[k].id].url
                e == posts[k].external_url
            IN  /\ (e # NoneUrl => e = u /\ u # AbsentUrl /\ ~TargetsFeedDomain(u))
                /\ (u = AbsentUrl \/ TargetsFeedDomain(u) => e = NoneUrl)

(***************************************************************************)
(* A listing answered with another status than 200 (checked under Spec).   *)
(***************************************************************************)
\* the request for the listing was answered, with a status that is not 200
ListingRefused == listing_status \notin {0, 200}

\* C19: when the listing is answered with a status other than 200,
\* get_top_daily_posts returns no post and does not raise;
\* collect_daily_content returns a content without posts, and main goes on:
\* the snapshot is written, the newsletter is generated from a prompt
\* without posts, and a text that is not blank is handed to send_email.
C19_BadStatusEmptyContentRunGoesOn ==
    ListingRefused =>
        /\ pc # "collect_raised"
        /\ posts = <<>> /\ collected_content = <<>> /\ sleeps = 0
        /\ pc \notin {"comments_response"}
        /\ (Stage(pc) >= 2 => content.built /\ content.posts = <<>>)
        /\ (Stage(pc) >= 3 => snapshot # "none")
        /\ (Stage(pc) >= 4 => prompt = PromptOf([posts |-> <<>>]))
        /\ (pc = "main_done" =>
              /\ calls # <<>>
              /\ genOutcome # "none"
              /\ (genOutcome = "returned" /\ Strip(newsletter) # <<>>
                    <=> smtp_config # "unread")
              /\ (mainResult = "error" <=> Raised \/ smtp_config = "bad_port"))

\* the listing was refused with status 500 and the newsletter was delivered
C19_Witness ==
    /\ listing_status = 500
    /\ content.built /\ content.posts = <<>>
    /\ snapshot = "written"
    /\ mainResult = "sent_to_all"

(***************************************************************************)
(* A whole run of main (checked under FairSpec).                           *)
(***************************************************************************)
\* the probe failed, a backup is configured and its completion returned
BackupAnswered ==
    /\ ProbeFalse
    /\ Truthy(backup_api_key)
    /\ CalledOut("openai", "ok")

\* no command of the SMTP session and no send failed, and the SMTP
\* configuration was not found wanting
TransportSucceeds ==
    /\ smtp_config \notin {"incomplete", "bad_port"}
    /\ \A k \in 1..Len(smtp) : smtp[k].out = "ok"

\* every recipient of EMAIL_TO was sent a message carrying the text
SentToEveryRecipient ==
    /\ email_to_list # <<>>
    /\ outbox = [k \in 1..Len(email_to_list) |->
                    [to |-> email_to_list[k], plain |-> newsletter]]

\* C11 (as claimed): when the collection succeeds, the probe fails, the
\* backup returns a text that is not empty, and the session and every send
\* succeed, the run has sent the text to every recipient and reports that
\* it was sent to all.
C11_NonEmptyTextDelivered ==
    (pc = "main_done" /\ content.built /\ BackupAnswered /\ newsletter # <<>>
        /\ TransportSucceeds)
      => (SentToEveryRecipient /\ mainResult = "sent_to_all")

\* C11 (amended): every run ends; when the collection succeeded, the probe
\* failed, the backup returned a text that is not blank, the SMTP
\* configuration is complete and every command of the session and every send
\* succeeded, the run has sent a message carrying that text to every
\* recipient of EMAIL_TO and reports that it was sent to all.
C11_NonBlankTextDelivered ==
    /\ <>(pc = "main_done")
    /\ []((pc = "main_done" /\ content.built /\ BackupAnswered
             /\ Strip(newsletter) # <<>> /\ TransportSucceeds)
           => (/\ newsletter = calls[Len(calls)].text
               /\ smtp_config = "ok"
               /\ SentToEveryRecipient
               /\ mainResult = "sent_to_all"))

\* the backup's text, with a leading blank, went to the recipient "a"
C11_Witness ==
    /\ pc = "main_done"
    /\ content.built
    /\ BackupAnswered
    /\ newsletter = <<" ", "T">>
    /\ TransportSucceeds
    /\ email_to_list = << <<"a">> >>
    /\ outbox = << [to |-> <<"a">>, plain |-> <<" ", "T">>] >>
    /\ mainResult = "sent_to_all"

(***************************************************************************)
(* The recipients of send_email (checked under SpecSend).                  *)
(***************************************************************************)
\* EMAIL_TO was split and trimmed, and no address of the list has a character
NoValidRecipient ==
    /\ smtp_config = "ok"
    /\ \A k \in 1..Len(email_to_list) : email_to_list[k] = <<>>

\* C21: when EMAIL_TO, split on commas and trimmed, has no address that is
\* not blank, send_email opens no SMTP connection, sends nothing and
\* returns False.
C21_NoValidRecipientNoSession ==
    NoValidRecipient =>
        /\ smtp = <<>>
        /\ session = "none"
        /\ outbox = <<>>
        /\ (pc = "send_done" => sendResult = FALSE)

(***************************************************************************)
(* The ends of main (C22 checked under Spec, C23 under FairSpec).          *)
(***************************************************************************)
\* generate_newsletter returned a text that is empty or only whitespace, and
\* main has tested it
BlankTextReturned ==
    /\ genOutcome = "returned"
    /\ Strip(newsletter) = <<>>
    /\ pc # "gen_done"

\* C22: when generate_newsletter returns a text that is empty or only
\* whitespace, main only reports it: send_email is not called, so no SMTP
\* connection is opened and nothing is sent, and the run ends without an
\* error.
C22_BlankTextOnlyReported ==
    BlankTextReturned =>
        /\ pc = "main_done"
        /\ mainResult = "empty_newsletter"
        /\ smtp_config = "unread"
        /\ smtp = <<>>
        /\ session = "none"
        /\ outbox = <<>>

\* the backup returned one blank; the run ended reporting the empty text
C22_Witness ==
    /\ newsletter = <<" ">>
    /\ CalledOut("openai", "ok")
    /\ pc = "main_done"
    /\ mainResult = "empty_newsletter"

\* what a run of main ends with: every one is a return of main
MainOutcomes == {"config_missing", "empty_newsletter", "sent_to_all",
                 "send_failures", "error"}

\* C23: every run of main ends, by returning: whatever fails in the
\* collection, the snapshot, the probe, the generation, the SMTP session or
\* the sends, the exception is handled inside main; with REDDIT_SUBREDDIT or
\* OPENAI_API_KEY missing, main returns before any request, call or send.
C23_MainAlwaysReturns ==
    /\ <>(pc = "main_done")
    /\ [](/\ (pc = "main_done" <=> mainResult # "running")
          /\ mainResult \in MainOutcomes \cup {"running"}
          /\ (mainResult = "error" <=>
                /\ pc = "main_done"
                /\ \/ response # NoResponse /\ ~content.built
                   \/ Raised
                   \/ smtp_config = "bad_port")
          /\ (mainResult = "config_missing" =>
                /\ listing_status = 0 /\ response = NoResponse /\ sleeps = 0
                /\ ~content.built /\ snapshot = "none"
                /\ prompt = <<>> /\ calls = <<>>
                /\ smtp_config = "unread" /\ smtp = <<>> /\ outbox = <<>>))

\* SMTP_PORT is not a number: the exception leaves send_email and is handled
\* by main
C23_Witness ==
    /\ pc = "main_done"
    /\ smtp_config = "bad_port"
    /\ snapshot = "failed"
    /\ mainResult = "error"

====
